---- MODULE Spec2Model ----
(***************************************************************************)
(* State-machine model of the MedAgent360 operator console (React UI).     *)
(*                                                                         *)
(* The model covers the two document pages (LabReport.jsx,                 *)
(* Prescription.jsx), the follow-up page (FollowUp.jsx: check-in trigger   *)
(* and enrollment form), the snapshot pages (Dashboard, Alerts, Recovery), *)
(* the service client they call (utils/api) and the application shell that *)
(* mounts one page at a time (App.jsx).                                    *)
(*                                                                         *)
(* JavaScript is single-threaded and run-to-completion: an event handler   *)
(* runs up to its first await as one step, and the continuation after the  *)
(* await (try / catch / finally) runs as one step when the promise         *)
(* settles.  Each such step is one action.                                 *)
(*                                                                         *)
(* A value that may be null/undefined is a sequence of length 0 or 1.      *)
(* A string that the code inspects character by character is a sequence    *)
(* of one-character strings.                                               *)
(***************************************************************************)
EXTENDS Integers, Sequences, FiniteSets, TLC

(***************************************************************************)
(* Bounds of the model.                                                    *)
(***************************************************************************)
\* number of distinct files the user can pick
MaxFiles == 2
\* number of service calls that can be on the wire at the same time
MaxInFlight == 2
\* length of result.classified_values in the status-mapping specification
MaxValues == 2

(***************************************************************************)
(* null / undefined and present values.                                    *)
(***************************************************************************)
NULL == <<>>
Some(x) == <<x>>

\* JavaScript truthiness of an optional string: undefined, null and '' are falsy.
TruthyStr(o) == o # NULL /\ o[1] # ""

\* a || b for optional strings
OrStr(a, b) == IF TruthyStr(a) THEN a ELSE b

(***************************************************************************)
(* Languages.                                                              *)
(***************************************************************************)
LanguageCode == {"en", "te", "hi"}

LANG_MAP == [en |-> "English", te |-> "Telugu", hi |-> "Hindi"]

(***************************************************************************)
(* Pages of the application shell; the two document pages are the          *)
(* document workflow controllers.                                          *)
(***************************************************************************)
Pages == {"dashboard", "lab", "prescription", "followup", "alerts", "recovery"}

Ctl == {"lab", "prescription"}

Files == 1 .. MaxFiles

\* file.name of a picked file
FileNameOf(f) == Some(f)

(***************************************************************************)
(* Errors a service-client call can be rejected with.  axios rejects with  *)
(* an error that has a message and, for a non-2xx answer, a response whose *)
(* body may carry "detail".  The last shape is an error without a message, *)
(* the case the handlers' final fallback literal is written for.           *)
(***************************************************************************)
Errors ==
    { [response |-> FALSE, detail |-> NULL, message |-> Some("Network Error")],
      [response |-> TRUE,  detail |-> Some("Only PDF files are supported"),
                           message |-> Some("Request failed with status code 400")],
      [response |-> TRUE,  detail |-> Some(""),
                           message |-> Some("Request failed with status code 500")],
      [response |-> TRUE,  detail |-> NULL,
                           message |-> Some("Request failed with status code 500")],
      [response |-> FALSE, detail |-> NULL, message |-> Some("")] }

\* the literal at the end of each handler's fallback chain
Fallback(c) == IF c = "lab" THEN "Analysis failed" ELSE "Parsing failed"

\* err.response?.data?.detail
DetailOf(err) == IF err.response THEN err.detail ELSE NULL

\* variant: the chain without its final literal
ErrorMessage_NoLiteral(err, fallback) == OrStr(DetailOf(err), err.message)[1]

\* variant: the chain without err.message
ErrorMessage_LiteralFirst(err, fallback) ==
    OrStr(DetailOf(err), Some(fallback))[1]

\* err.response?.data?.detail || err.message || '<fallback>'
ErrorMessage(err, fallback) ==
    OrStr(OrStr(DetailOf(err), err.message), Some(fallback))[1]

VARIABLES
    lang,        \* AppLayout: the global UI language
    page,        \* the route that is active; its page component is mounted
    outputLang,  \* per document page: useState(lang)
    result,      \* per document page: useState(null)
    loading,     \* per document page: useState(false)
    error,       \* per document page: useState(null)
    fileName,    \* per document page: useState('')
    fileInput,   \* per document page: fileRef.current.files[0]
    inflight,    \* analysis calls of the mounted page not yet settled, in issue order
    orphaned,    \* number of unsettled calls whose page instance is unmounted
    caught,      \* the error the catch block of the last step received (history)
    resolved,    \* the body the sendCheckin await of the last step resolved with (history)
    values,      \* status-mapping specification: result.classified_values
    rows,        \* status-mapping specification: status of each LabRow rendered
    chatLang,       \* FollowUp: useState(lang)
    checkinStatus,  \* FollowUp: useState(null)
    checkinLoading, \* FollowUp: useState(false)
    enrollForm,     \* FollowUp: useState({ phone: '', name: '', ... })
    enrollStatus,   \* FollowUp: useState(null)
    checkinCalls,   \* sendCheckin calls of the mounted page not yet settled
    enrollCalls,    \* enrollPatient calls of the mounted page not yet settled
    stats,          \* Dashboard: useState({ lab_count: 24, ... })
    alerts,         \* Alerts: useState([ ...three alerts ])
    recoveryData,   \* Recovery: useState(null)
    loadPending     \* the snapshot call of the mounted page has not settled

docVars == <<outputLang, result, loading, error, fileName, fileInput>>

followVars == <<chatLang, checkinStatus, checkinLoading, enrollForm, enrollStatus,
                checkinCalls, enrollCalls>>

snapVars == <<stats, alerts, recoveryData, loadPending>>

vars == <<lang, page, docVars, inflight, orphaned, caught, resolved, values, rows,
          followVars, snapVars>>

(***************************************************************************)
(* The service client: one POST per call, the response body on success.    *)
(***************************************************************************)
\* analyzeLabReport(file, language) / parsePrescription(file, language):
\* the call on the wire.  "superseded" tells whether the page has started
\* another call since.
AnalysisRequest(c, f, language) ==
    [ctl |-> c, file |-> f, language |-> language, superseded |-> FALSE]

\* response.data of a successful analysis: the service's content for the
\* file and the language of the request
ResponseData(r) == [file |-> r.file, language |-> r.language]

\* the calls on the wire once the mounted page has started call req
Issue(req) ==
    Append([i \in DOMAIN inflight |-> [inflight[i] EXCEPT !.superseded = TRUE]], req)

\* the bound on the calls on the wire
CanIssue == Len(inflight) + orphaned < MaxInFlight

\* the calls on the wire once call i has settled
Settle(i) == [j \in 1 .. Len(inflight) - 1 |->
                IF j < i THEN inflight[j] ELSE inflight[j + 1]]

(***************************************************************************)
(* Follow-up page (FollowUp.jsx).  A status message is built by a template *)
(* literal; it is the sequence of the literal's parts, in order.  The      *)
(* pictographs of the source are written by their code points and its      *)
(* dash as "--".                                                           *)
(***************************************************************************)
\* the arguments handleTriggerCheckin passes for phone and name
CheckinPhone == "+919999999999"

CheckinName == "Ravi Kumar"

\* variant: the chat language code is passed as it is
CheckinLanguage_Code(cl) == cl

\* chatLang === 'te' ? 'Telugu' : chatLang === 'hi' ? 'Hindi' : 'English'
CheckinLanguage(cl) ==
    IF cl = "te" THEN "Telugu" ELSE IF cl = "hi" THEN "Hindi" ELSE "English"

\* sendCheckin(phone, name, language): the call on the wire
CheckinRequest(phone, name, language) ==
    [phone |-> phone, name |-> name, language |-> language]

\* variant: the enrollment call carries the language of the chat
EnrollRequest_ChatLanguage(phone, name, language, doctorPhone) ==
    [phone |-> phone, name |-> name, language |-> CheckinLanguage(chatLang),
     doctor_phone |-> doctorPhone]

\* enrollPatient(phone, name, language, doctorPhone): the call on the wire
EnrollRequest(phone, name, language, doctorPhone) ==
    [phone |-> phone, name |-> name, language |-> language,
     doctor_phone |-> doctorPhone]

\* response.data of a fulfilled sendCheckin: message_sid absent, empty or a SID
CheckinResponses ==
    { [message_sid |-> NULL], [message_sid |-> Some("")],
      [message_sid |-> Some("SM0f3a")] }

\* the errors of the follow-up service: the shapes of Errors, the detail
\* being the one of a service without messaging credentials
FollowUpErrors ==
    { IF TruthyStr(e.detail) THEN [e EXCEPT !.detail = Some("Twilio not configured")]
                             ELSE e : e \in Errors }

\* what the user can type in the phone and name inputs of the enrollment form
PhoneInputs == {"", "+919876543210"}

NameInputs == {"", "Sita Devi"}

\* the initial enrollment form
InitialEnrollForm ==
    [phone |-> "", name |-> "", language |-> "English", doctorPhone |-> ""]

\* the bound on the calls on the wire, for the calls of the follow-up page
CanCall == Len(checkinCalls) + Len(enrollCalls) + orphaned < MaxInFlight

\* the calls cs on the wire once call i of them has settled
Without(cs, i) == [j \in 1 .. Len(cs) - 1 |-> IF j < i THEN cs[j] ELSE cs[j + 1]]

(***************************************************************************)
(* Snapshot pages: Dashboard, Alerts and Recovery load one read-only       *)
(* snapshot when they are mounted.                                         *)
(***************************************************************************)
SnapshotPages == {"dashboard", "alerts", "recovery"}

\* Dashboard: the initial value of stats
DefaultStats == [lab_count |-> 24, rx_count |-> 4, alert_count |-> 3, recovery_day |-> 5]

\* bodies the service can answer getDashboardStats with
StatsData == { [lab_count |-> 31, rx_count |-> 6, alert_count |-> 0, recovery_day |-> 2] }

\* Alerts: the initial value of alerts
DefaultAlerts ==
    << [type |-> "critical", title |-> "High Blood Sugar Detected"],
       [type |-> "warning", title |-> "Missed Check-in"],
       [type |-> "info", title |-> "New Prescription Added"] >>

\* data.alerts of the bodies the service can answer getAlerts with: absent,
\* empty, or one alert
AlertsData ==
    { NULL, Some(<<>>), Some(<<[type |-> "critical", title |-> "Fever reported"]>>) }

\* Recovery: the fallback vitals
DefaultVitals == [pain |-> 6, energy |-> 4, sleep |-> 6, appetite |-> 8]

\* bodies the service can answer getRecoveryData with
RecoveryPayloads ==
    { [current_day |-> 3, total_days |-> 10,
       vitals |-> Some([pain |-> 2, energy |-> 7, sleep |-> 8, appetite |-> 9])],
      [current_day |-> 0, total_days |-> 0, vitals |-> NULL] }

\* Recovery: recoveryData?.vitals || { ... }
vitals == IF recoveryData # NULL /\ recoveryData[1].vitals # NULL
            THEN recoveryData[1].vitals[1] ELSE DefaultVitals

\* Recovery: recoveryData?.current_day || 5
currentDay == IF recoveryData # NULL /\ recoveryData[1].current_day # 0
                THEN recoveryData[1].current_day ELSE 5

\* Recovery: recoveryData?.total_days || 7
totalDays == IF recoveryData # NULL /\ recoveryData[1].total_days # 0
               THEN recoveryData[1].total_days ELSE 7

(***************************************************************************)
(* Mounting.  A page component's state cells exist while its route is      *)
(* active.  Fresh(c, p, l) is the state of document page c when route p    *)
(* becomes active under UI language l: the useState initial values when    *)
(* c = p; the cells of a document page that is not mounted are kept at     *)
(* the same values with outputLang "en".                                   *)
(***************************************************************************)
\* variant: a page is mounted with useState('en') for its output language
Fresh_English(c, p, l) ==
    [outputLang |-> "en",
     result |-> NULL, loading |-> FALSE, error |-> NULL,
     fileName |-> NULL, fileInput |-> NULL]

Fresh(c, p, l) ==
    [outputLang |-> IF c = p THEN l ELSE "en",
     result |-> NULL, loading |-> FALSE, error |-> NULL,
     fileName |-> NULL, fileInput |-> NULL]

\* the follow-up page's chatLang when route p becomes active under UI
\* language l: useState(lang) when it is mounted, "en" otherwise
FreshChatLang(p, l) == IF p = "followup" THEN l ELSE "en"

Init ==
    /\ lang = "en"
    /\ page \in Pages
    /\ outputLang = [c \in Ctl |-> Fresh(c, page, lang).outputLang]
    /\ result = [c \in Ctl |-> Fresh(c, page, lang).result]
    /\ loading = [c \in Ctl |-> Fresh(c, page, lang).loading]
    /\ error = [c \in Ctl |-> Fresh(c, page, lang).error]
    /\ fileName = [c \in Ctl |-> Fresh(c, page, lang).fileName]
    /\ fileInput = [c \in Ctl |-> Fresh(c, page, lang).fileInput]
    /\ inflight = <<>>
    /\ orphaned = 0
    /\ caught = NULL
    /\ resolved = NULL
    /\ values = <<>>
    /\ rows = <<>>
    /\ chatLang = FreshChatLang(page, lang)
    /\ checkinStatus = NULL
    /\ checkinLoading = FALSE
    /\ enrollForm = InitialEnrollForm
    /\ enrollStatus = NULL
    /\ checkinCalls = <<>>
    /\ enrollCalls = <<>>
    /\ stats = Some(DefaultStats)
    /\ alerts = Some(DefaultAlerts)
    /\ recoveryData = NULL
    /\ loadPending = (page \in SnapshotPages)

(***************************************************************************)
(* Application shell.                                                      *)
(***************************************************************************)
\* variant: a change of the UI language drops what the pages show
setLang_ResetsPages(l) ==
    /\ l # lang
    /\ lang' = l
    /\ result' = [c \in Ctl |-> NULL]
    /\ checkinStatus' = NULL
    /\ enrollStatus' = NULL
    /\ caught' = NULL
    /\ resolved' = NULL
    /\ UNCHANGED <<page, outputLang, loading, error, fileName, fileInput, inflight,
                   orphaned, values, rows, chatLang, checkinLoading, enrollForm,
                   checkinCalls, enrollCalls, snapVars>>

\* Sidebar: onClick={() => setLang(code)}
setLang(l) ==
    /\ l # lang
    /\ lang' = l
    /\ caught' = NULL
    /\ resolved' = NULL
    /\ UNCHANGED <<page, docVars, inflight, orphaned, values, rows,
                   followVars, snapVars>>

\* A NavLink to another route: the page of the old route is unmounted and
\* its state dropped, the page of the new route is mounted with fresh state.
\* Calls of the unmounted instance stay on the wire; their continuations
\* hold the setters of the unmounted instance.
Navigate(p) ==
    /\ p # page
    /\ page' = p
    /\ outputLang' = [c \in Ctl |-> Fresh(c, p, lang).outputLang]
    /\ result' = [c \in Ctl |-> Fresh(c, p, lang).result]
    /\ loading' = [c \in Ctl |-> Fresh(c, p, lang).loading]
    /\ error' = [c \in Ctl |-> Fresh(c, p, lang).error]
    /\ fileName' = [c \in Ctl |-> Fresh(c, p, lang).fileName]
    /\ fileInput' = [c \in Ctl |-> Fresh(c, p, lang).fileInput]
    /\ inflight' = <<>>
    /\ orphaned' = orphaned + Len(inflight) + Len(checkinCalls) + Len(enrollCalls)
                     + (IF loadPending THEN 1 ELSE 0)
    /\ p \in SnapshotPages => orphaned' < MaxInFlight
    /\ caught' = NULL
    /\ resolved' = NULL
    /\ chatLang' = FreshChatLang(p, lang)
    /\ checkinStatus' = NULL
    /\ checkinLoading' = FALSE
    /\ enrollForm' = InitialEnrollForm
    /\ enrollStatus' = NULL
    /\ checkinCalls' = <<>>
    /\ enrollCalls' = <<>>
    /\ stats' = Some(DefaultStats)
    /\ alerts' = Some(DefaultAlerts)
    /\ recoveryData' = NULL
    /\ loadPending' = (p \in SnapshotPages)
    /\ UNCHANGED <<lang, values, rows>>

(***************************************************************************)
(* Document pages: LabReport and Prescription.                             *)
(***************************************************************************)
\* The header upload button is rendered in every state of the page; it
\* opens the file picker of the hidden <input type="file">.
HeaderUploadRendered(c) == page = c

\* {result && !loading && ( <Panel> ... )}: the results panel, which holds
\* the LangStrip, the re-analyze button (lab) and Upload Another (prescription)
ResultsRendered(c) == page = c /\ result[c] # NULL /\ ~loading[c]

\* {error && ( ... )}: the error box, which holds Try Again (prescription)
ErrorRendered(c) == page = c /\ TruthyStr(error[c])

\* handleUpload up to its await, for a change event that carries a file:
\* the picked file is now the file of the input element
handleUploadFile(c, f) ==
    /\ HeaderUploadRendered(c)
    /\ CanIssue
    /\ fileInput[c] # Some(f)
    /\ fileInput' = [fileInput EXCEPT ![c] = Some(f)]
    /\ fileName' = [fileName EXCEPT ![c] = FileNameOf(f)]
    /\ loading' = [loading EXCEPT ![c] = TRUE]
    /\ error' = [error EXCEPT ![c] = NULL]
    /\ result' = [result EXCEPT ![c] = NULL]
    /\ inflight' = Issue(AnalysisRequest(c, f, LANG_MAP[outputLang[c]]))
    /\ caught' = NULL
    /\ resolved' = NULL
    /\ UNCHANGED <<lang, page, outputLang, orphaned, values, rows,
                   followVars, snapVars>>

\* variant: a change event without a file clears the displayed file name
handleUploadNoFile_ClearsName(c) ==
    /\ HeaderUploadRendered(c)
    /\ fileInput[c] # NULL
    /\ fileInput' = [fileInput EXCEPT ![c] = NULL]
    /\ fileName' = [fileName EXCEPT ![c] = NULL]
    /\ caught' = NULL
    /\ resolved' = NULL
    /\ UNCHANGED <<lang, page, outputLang, result, loading, error,
                   inflight, orphaned, values, rows, followVars, snapVars>>

\* handleUpload for a change event whose target holds no file (the picker
\* emptied the selection): if (!file) return
handleUploadNoFile(c) ==
    /\ HeaderUploadRendered(c)
    /\ fileInput[c] # NULL
    /\ fileInput' = [fileInput EXCEPT ![c] = NULL]
    /\ caught' = NULL
    /\ resolved' = NULL
    /\ UNCHANGED <<lang, page, outputLang, result, loading, error, fileName,
                   inflight, orphaned, values, rows,
                   followVars, snapVars>>

\* variant: re-analyze clears the result as handleUpload does
handleReanalyze_ClearsResult ==
    /\ ResultsRendered("lab")
    /\ caught' = NULL
    /\ resolved' = NULL
    /\ IF fileInput["lab"] = NULL
         THEN UNCHANGED <<loading, error, result, inflight>>
         ELSE /\ CanIssue
              /\ loading' = [loading EXCEPT !["lab"] = TRUE]
              /\ error' = [error EXCEPT !["lab"] = NULL]
              /\ result' = [result EXCEPT !["lab"] = NULL]
              /\ inflight' = Issue(AnalysisRequest("lab", fileInput["lab"][1],
                                                   LANG_MAP[outputLang["lab"]]))
    /\ UNCHANGED <<lang, page, outputLang, fileName, fileInput, orphaned,
                   values, rows, followVars, snapVars>>

\* variant: without a file in the input element, re-analyze drops the result
handleReanalyze_DropResult ==
    /\ ResultsRendered("lab")
    /\ caught' = NULL
    /\ resolved' = NULL
    /\ IF fileInput["lab"] = NULL
         THEN /\ result' = [result EXCEPT !["lab"] = NULL]
              /\ UNCHANGED <<loading, error, inflight>>
         ELSE /\ CanIssue
              /\ loading' = [loading EXCEPT !["lab"] = TRUE]
              /\ error' = [error EXCEPT !["lab"] = NULL]
              /\ inflight' = Issue(AnalysisRequest("lab", fileInput["lab"][1],
                                                   LANG_MAP[outputLang["lab"]]))
              /\ UNCHANGED result
    /\ UNCHANGED <<lang, page, outputLang, fileName, fileInput, orphaned,
                   values, rows, followVars, snapVars>>

\* handleReanalyze (lab page only):
\* if (!fileRef.current?.files?.[0]) return; then as handleUpload, but
\* fileName and result are left as they are
handleReanalyze ==
    /\ ResultsRendered("lab")
    /\ caught' = NULL
    /\ resolved' = NULL
    /\ IF fileInput["lab"] = NULL
         THEN UNCHANGED <<loading, error, inflight>>
         ELSE /\ CanIssue
              /\ loading' = [loading EXCEPT !["lab"] = TRUE]
              /\ error' = [error EXCEPT !["lab"] = NULL]
              /\ inflight' = Issue(AnalysisRequest("lab", fileInput["lab"][1],
                                                   LANG_MAP[outputLang["lab"]]))
    /\ UNCHANGED <<lang, page, outputLang, result, fileName, fileInput, orphaned,
                   values, rows,
                   followVars, snapVars>>

\* the continuation of handleUpload / handleReanalyze after a fulfilled
\* await: setResult(data); finally setLoading(false)
AnalysisFulfilled(i) ==
    /\ i \in DOMAIN inflight
    /\ inflight' = Settle(i)
    /\ result' = [result EXCEPT ![inflight[i].ctl] = Some(ResponseData(inflight[i]))]
    /\ loading' = [loading EXCEPT ![inflight[i].ctl] = FALSE]
    /\ caught' = NULL
    /\ resolved' = NULL
    /\ UNCHANGED <<lang, page, outputLang, error, fileName, fileInput, orphaned,
                   values, rows,
                   followVars, snapVars>>

\* variant: the continuation after a rejected await without the finally block
AnalysisRejected_NoFinally(i, err) ==
    /\ i \in DOMAIN inflight
    /\ inflight' = Settle(i)
    /\ error' = [error EXCEPT ![inflight[i].ctl] =
                    Some(ErrorMessage(err, Fallback(inflight[i].ctl)))]
    /\ caught' = Some(err)
    /\ resolved' = NULL
    /\ UNCHANGED <<lang, page, outputLang, result, loading, fileName, fileInput,
                   orphaned, values, rows, followVars, snapVars>>

\* the continuation after a rejected await:
\* setError(err.response?.data?.detail || err.message || '...'); finally
\* setLoading(false)
AnalysisRejected(i, err) ==
    /\ i \in DOMAIN inflight
    /\ inflight' = Settle(i)
    /\ error' = [error EXCEPT ![inflight[i].ctl] =
                    Some(ErrorMessage(err, Fallback(inflight[i].ctl)))]
    /\ loading' = [loading EXCEPT ![inflight[i].ctl] = FALSE]
    /\ caught' = Some(err)
    /\ resolved' = NULL
    /\ UNCHANGED <<lang, page, outputLang, result, fileName, fileInput, orphaned,
                   values, rows,
                   followVars, snapVars>>

\* variant: the continuation of a call of an unmounted instance writes the
\* cells of the mounted document page
OrphanSettled_WritesMounted ==
    /\ orphaned > 0
    /\ orphaned' = orphaned - 1
    /\ result' = [c \in Ctl |-> IF c = page
                                  THEN Some(ResponseData(AnalysisRequest(c, 1, "English")))
                                  ELSE result[c]]
    /\ caught' = NULL
    /\ resolved' = NULL
    /\ UNCHANGED <<lang, page, outputLang, loading, error, fileName, fileInput,
                   inflight, values, rows, followVars, snapVars>>

\* a call of an unmounted instance settles, fulfilled or rejected: the
\* continuation calls the setters of the unmounted instance, which change
\* nothing of the mounted page
OrphanSettled ==
    /\ orphaned > 0
    /\ orphaned' = orphaned - 1
    /\ caught' = NULL
    /\ resolved' = NULL
    /\ UNCHANGED <<lang, page, docVars, inflight, values, rows,
                   followVars, snapVars>>

\* variant: a click on a LangStrip button re-requests the file in the new language
LangStripCalls_Refetch(c, l) ==
    IF fileInput[c] # NULL /\ CanIssue
      THEN Issue(AnalysisRequest(c, fileInput[c][1], LANG_MAP[l]))
      ELSE inflight

\* the calls on the wire after a click on a LangStrip button: it starts none
LangStripCalls(c, l) == inflight

\* LangStrip in the results panel: onClick={() => onChange(code)} with
\* onChange = setOutputLang
setOutputLang(c, l) ==
    /\ ResultsRendered(c)
    /\ outputLang' = [outputLang EXCEPT ![c] = l]
    /\ inflight' = LangStripCalls(c, l)
    /\ caught' = NULL
    /\ resolved' = NULL
    /\ UNCHANGED <<lang, page, result, loading, error, fileName, fileInput,
                   orphaned, values, rows,
                   followVars, snapVars>>

\* variant: Try Again uploads the file of the input element again
TryAgain_Retry ==
    /\ ErrorRendered("prescription")
    /\ fileInput["prescription"] # NULL
    /\ CanIssue
    /\ error' = [error EXCEPT !["prescription"] = NULL]
    /\ result' = [result EXCEPT !["prescription"] = NULL]
    /\ inflight' = Issue(AnalysisRequest("prescription", fileInput["prescription"][1],
                                         LANG_MAP[outputLang["prescription"]]))
    /\ caught' = NULL
    /\ resolved' = NULL
    /\ UNCHANGED <<lang, page, outputLang, loading, fileName, fileInput,
                   orphaned, values, rows, followVars, snapVars>>

\* <div className="ai-text">{result.summary}</div> (lab) and
\* {med.translated_instruction} (prescription): the language of the text
\* the results panel renders is the language the service wrote it in
RenderedLanguage(c) == result[c][1].language

\* Prescription, error box: Try Again = { setError(null); setResult(null); }
TryAgain ==
    /\ ErrorRendered("prescription")
    /\ error' = [error EXCEPT !["prescription"] = NULL]
    /\ result' = [result EXCEPT !["prescription"] = NULL]
    /\ caught' = NULL
    /\ resolved' = NULL
    /\ UNCHANGED <<lang, page, outputLang, loading, fileName, fileInput,
                   inflight, orphaned, values, rows,
                   followVars, snapVars>>

\* Prescription, results panel: Upload Another = { setResult(null); setError(null); }
UploadAnother ==
    /\ ResultsRendered("prescription")
    /\ result' = [result EXCEPT !["prescription"] = NULL]
    /\ error' = [error EXCEPT !["prescription"] = NULL]
    /\ caught' = NULL
    /\ resolved' = NULL
    /\ UNCHANGED <<lang, page, outputLang, loading, fileName, fileInput,
                   inflight, orphaned, values, rows,
                   followVars, snapVars>>

(***************************************************************************)
(* Follow-up page: the language switch of the chat, the check-in trigger   *)
(* and the enrollment form.                                                *)
(***************************************************************************)
\* the chat language buttons: onClick={() => setChatLang(code)}
setChatLang(l) ==
    /\ page = "followup"
    /\ l # chatLang
    /\ chatLang' = l
    /\ caught' = NULL
    /\ resolved' = NULL
    /\ UNCHANGED <<lang, page, docVars, inflight, orphaned, values, rows,
                   checkinStatus, checkinLoading, enrollForm, enrollStatus,
                   checkinCalls, enrollCalls, snapVars>>

\* variant: the trigger button without the disabled prop
TriggerRendered_Always == page = "followup"

\* <Btn onClick={handleTriggerCheckin} disabled={checkinLoading}>
TriggerRendered == page = "followup" /\ ~checkinLoading

\* handleTriggerCheckin up to its await
handleTriggerCheckin ==
    /\ TriggerRendered
    /\ CanCall
    /\ checkinLoading' = TRUE
    /\ checkinStatus' = NULL
    /\ checkinCalls' = Append(checkinCalls,
                              CheckinRequest(CheckinPhone, CheckinName,
                                             CheckinLanguage(chatLang)))
    /\ caught' = NULL
    /\ resolved' = NULL
    /\ UNCHANGED <<lang, page, docVars, inflight, orphaned, values, rows,
                   chatLang, enrollForm, enrollStatus, enrollCalls, snapVars>>

\* variant: the SID message whether or not the body has a message_sid
CheckinSentMsg_AlwaysSid(data) ==
    <<"U+2705 Check-in sent (SID: ",
      IF data.message_sid = NULL THEN "undefined" ELSE data.message_sid[1], ")">>

\* result.message_sid ? `(check) Check-in sent (SID: ${result.message_sid})`
\*                    : '(check) Check-in triggered (Twilio not configured -- demo mode)'
CheckinSentMsg(data) ==
    IF TruthyStr(data.message_sid)
      THEN <<"U+2705 Check-in sent (SID: ", data.message_sid[1], ")">>
      ELSE <<"U+2705 Check-in triggered (Twilio not configured -- demo mode)">>

\* variant: the failure message is the fixed literal, whatever the error
CheckinFailedMsg_Generic(err) ==
    <<"U+26A0 U+FE0F ", "Check-in failed -- Twilio credentials may be missing">>

\* const detail = err.response?.data?.detail || err.message;
\* `(warning) ${detail || 'Check-in failed -- Twilio credentials may be missing'}`
CheckinFailedMsg(err) ==
    <<"U+26A0 U+FE0F ",
      OrStr(OrStr(DetailOf(err), err.message),
            Some("Check-in failed -- Twilio credentials may be missing"))[1]>>

\* the continuation of handleTriggerCheckin after a fulfilled await:
\* setCheckinStatus({ ok: true, msg }); finally setCheckinLoading(false)
CheckinFulfilled(i, data) ==
    /\ i \in DOMAIN checkinCalls
    /\ checkinCalls' = Without(checkinCalls, i)
    /\ checkinStatus' = Some([ok |-> TRUE, msg |-> CheckinSentMsg(data)])
    /\ checkinLoading' = FALSE
    /\ caught' = NULL
    /\ resolved' = Some(data)
    /\ UNCHANGED <<lang, page, docVars, inflight, orphaned, values, rows,
                   chatLang, enrollForm, enrollStatus, enrollCalls, snapVars>>

\* the continuation after a rejected await:
\* setCheckinStatus({ ok: false, msg }); finally setCheckinLoading(false)
CheckinRejected(i, err) ==
    /\ i \in DOMAIN checkinCalls
    /\ checkinCalls' = Without(checkinCalls, i)
    /\ checkinStatus' = Some([ok |-> FALSE, msg |-> CheckinFailedMsg(err)])
    /\ checkinLoading' = FALSE
    /\ caught' = Some(err)
    /\ resolved' = NULL
    /\ UNCHANGED <<lang, page, docVars, inflight, orphaned, values, rows,
                   chatLang, enrollForm, enrollStatus, enrollCalls, snapVars>>

\* the phone input: onChange={e => setEnrollForm(f => ({ ...f, phone: e.target.value }))}
setEnrollPhone(v) ==
    /\ page = "followup"
    /\ v # enrollForm.phone
    /\ enrollForm' = [enrollForm EXCEPT !.phone = v]
    /\ caught' = NULL
    /\ resolved' = NULL
    /\ UNCHANGED <<lang, page, docVars, inflight, orphaned, values, rows,
                   chatLang, checkinStatus, checkinLoading, enrollStatus,
                   checkinCalls, enrollCalls, snapVars>>

\* the name input: onChange={e => setEnrollForm(f => ({ ...f, name: e.target.value }))}
setEnrollName(v) ==
    /\ page = "followup"
    /\ v # enrollForm.name
    /\ enrollForm' = [enrollForm EXCEPT !.name = v]
    /\ caught' = NULL
    /\ resolved' = NULL
    /\ UNCHANGED <<lang, page, docVars, inflight, orphaned, values, rows,
                   chatLang, checkinStatus, checkinLoading, enrollStatus,
                   checkinCalls, enrollCalls, snapVars>>

\* <form onSubmit={handleEnroll}> with <Btn type="submit">: the form can be
\* submitted whenever the page is mounted
EnrollSubmitRendered == page = "followup"

\* variant: handleEnroll clears the status before the call
handleEnroll_ClearsStatus ==
    /\ EnrollSubmitRendered
    /\ CanCall
    /\ enrollStatus' = NULL
    /\ enrollCalls' = Append(enrollCalls,
                             EnrollRequest(enrollForm.phone, enrollForm.name,
                                           enrollForm.language, enrollForm.doctorPhone))
    /\ caught' = NULL
    /\ resolved' = NULL
    /\ UNCHANGED <<lang, page, docVars, inflight, orphaned, values, rows,
                   chatLang, checkinStatus, checkinLoading, enrollForm,
                   checkinCalls, snapVars>>

\* handleEnroll up to its await: e.preventDefault(); the call
handleEnroll ==
    /\ EnrollSubmitRendered
    /\ CanCall
    /\ enrollCalls' = Append(enrollCalls,
                             EnrollRequest(enrollForm.phone, enrollForm.name,
                                           enrollForm.language, enrollForm.doctorPhone))
    /\ caught' = NULL
    /\ resolved' = NULL
    /\ UNCHANGED <<lang, page, docVars, inflight, orphaned, values, rows,
                   chatLang, checkinStatus, checkinLoading, enrollForm,
                   enrollStatus, checkinCalls, snapVars>>

\* `(cross) ${err.response?.data?.detail || err.message}`
EnrollFailedMsg(err) == <<"U+274C ", OrStr(DetailOf(err), err.message)[1]>>

\* the continuation of handleEnroll after a fulfilled await
EnrollFulfilled(i) ==
    /\ i \in DOMAIN enrollCalls
    /\ enrollCalls' = Without(enrollCalls, i)
    /\ enrollStatus' = Some([ok |-> TRUE,
                             msg |-> <<"U+2705 Patient enrolled successfully">>])
    /\ caught' = NULL
    /\ resolved' = NULL
    /\ UNCHANGED <<lang, page, docVars, inflight, orphaned, values, rows,
                   chatLang, checkinStatus, checkinLoading, enrollForm,
                   checkinCalls, snapVars>>

\* the continuation of handleEnroll after a rejected await
EnrollRejected(i, err) ==
    /\ i \in DOMAIN enrollCalls
    /\ enrollCalls' = Without(enrollCalls, i)
    /\ enrollStatus' = Some([ok |-> FALSE, msg |-> EnrollFailedMsg(err)])
    /\ caught' = Some(err)
    /\ resolved' = NULL
    /\ UNCHANGED <<lang, page, docVars, inflight, orphaned, values, rows,
                   chatLang, checkinStatus, checkinLoading, enrollForm,
                   checkinCalls, snapVars>>

(***************************************************************************)
(* Snapshot pages: the continuation of the call the mount effect made.     *)
(***************************************************************************)
\* .then(data => setStats(data)) / .then(data => setAlerts(data.alerts)) /
\* .then(data => setRecoveryData(data))
LoadFulfilled ==
    /\ loadPending
    /\ loadPending' = FALSE
    /\ \/ page = "dashboard" /\ stats' \in {Some(d) : d \in StatsData}
                             /\ UNCHANGED <<alerts, recoveryData>>
       \/ page = "alerts" /\ alerts' \in AlertsData
                          /\ UNCHANGED <<stats, recoveryData>>
       \/ page = "recovery" /\ recoveryData' \in {Some(d) : d \in RecoveryPayloads}
                            /\ UNCHANGED <<stats, alerts>>
    /\ caught' = NULL
    /\ resolved' = NULL
    /\ UNCHANGED <<lang, page, docVars, inflight, orphaned, values, rows, followVars>>

\* variant: the catch handler empties the snapshot
AfterCatch_Cleared(cell) == NULL

\* .catch(() => { }): the state cell after the catch handler has run
AfterCatch(cell) == cell

\* variant: the catch handler makes the snapshot call again
LoadRejected_Retry(err) ==
    /\ loadPending
    /\ loadPending' = TRUE
    /\ caught' = Some(err)
    /\ resolved' = NULL
    /\ UNCHANGED <<lang, page, docVars, inflight, orphaned, values, rows, followVars,
                   stats, alerts, recoveryData>>

\* the call is rejected with err: .catch(() => { })
LoadRejected(err) ==
    /\ loadPending
    /\ loadPending' = FALSE
    /\ stats' = IF page = "dashboard" THEN AfterCatch(stats) ELSE stats
    /\ alerts' = IF page = "alerts" THEN AfterCatch(alerts) ELSE alerts
    /\ recoveryData' = IF page = "recovery" THEN AfterCatch(recoveryData)
                                            ELSE recoveryData
    /\ caught' = Some(err)
    /\ resolved' = NULL
    /\ UNCHANGED <<lang, page, docVars, inflight, orphaned, values, rows, followVars>>

Next ==
    \/ \E l \in LanguageCode : setLang(l)
    \/ \E p \in Pages : Navigate(p)
    \/ \E c \in Ctl, f \in Files : handleUploadFile(c, f)
    \/ \E c \in Ctl : handleUploadNoFile(c)
    \/ handleReanalyze
    \/ \E i \in DOMAIN inflight : AnalysisFulfilled(i)
    \/ \E i \in DOMAIN inflight, err \in Errors : AnalysisRejected(i, err)
    \/ OrphanSettled
    \/ \E c \in Ctl, l \in LanguageCode : setOutputLang(c, l)
    \/ TryAgain
    \/ UploadAnother
    \/ \E l \in LanguageCode : setChatLang(l)
    \/ handleTriggerCheckin
    \/ \E i \in DOMAIN checkinCalls, data \in CheckinResponses : CheckinFulfilled(i, data)
    \/ \E i \in DOMAIN checkinCalls, err \in FollowUpErrors : CheckinRejected(i, err)
    \/ \E v \in PhoneInputs : setEnrollPhone(v)
    \/ \E v \in NameInputs : setEnrollName(v)
    \/ handleEnroll
    \/ \E i \in DOMAIN enrollCalls : EnrollFulfilled(i)
    \/ \E i \in DOMAIN enrollCalls, err \in FollowUpErrors : EnrollRejected(i, err)
    \/ LoadFulfilled
    \/ \E err \in Errors : LoadRejected(err)

Spec == Init /\ [][Next]_vars

\* The behaviours in which the user starts no analysis while another call of
\* the page is on the wire.
NextOneAtATime ==
    \/ \E l \in LanguageCode : setLang(l)
    \/ \E p \in Pages : Navigate(p)
    \/ inflight = <<>> /\ \E c \in Ctl, f \in Files : handleUploadFile(c, f)
    \/ \E c \in Ctl : handleUploadNoFile(c)
    \/ inflight = <<>> /\ handleReanalyze
    \/ \E i \in DOMAIN inflight : AnalysisFulfilled(i)
    \/ \E i \in DOMAIN inflight, err \in Errors : AnalysisRejected(i, err)
    \/ OrphanSettled
    \/ \E c \in Ctl, l \in LanguageCode : setOutputLang(c, l)
    \/ TryAgain
    \/ UploadAnother
    \/ \E l \in LanguageCode : setChatLang(l)
    \/ handleTriggerCheckin
    \/ \E i \in DOMAIN checkinCalls, data \in CheckinResponses : CheckinFulfilled(i, data)
    \/ \E i \in DOMAIN checkinCalls, err \in FollowUpErrors : CheckinRejected(i, err)
    \/ \E v \in PhoneInputs : setEnrollPhone(v)
    \/ \E v \in NameInputs : setEnrollName(v)
    \/ handleEnroll
    \/ \E i \in DOMAIN enrollCalls : EnrollFulfilled(i)
    \/ \E i \in DOMAIN enrollCalls, err \in FollowUpErrors : EnrollRejected(i, err)
    \/ LoadFulfilled
    \/ \E err \in Errors : LoadRejected(err)

SpecOneAtATime == Init /\ [][NextOneAtATime]_vars

\* Every call that has been issued settles: the service answers or the
\* transport gives up.  The steps of the user are under no fairness
\* condition.
AnalysisSettles ==
    \E i \in DOMAIN inflight :
       AnalysisFulfilled(i) \/ \E err \in Errors : AnalysisRejected(i, err)

CheckinCallSettles ==
    \E i \in DOMAIN checkinCalls :
       \/ \E data \in CheckinResponses : CheckinFulfilled(i, data)
       \/ \E err \in FollowUpErrors : CheckinRejected(i, err)

EnrollCallSettles ==
    \E i \in DOMAIN enrollCalls :
       EnrollFulfilled(i) \/ \E err \in FollowUpErrors : EnrollRejected(i, err)

LoadSettles == LoadFulfilled \/ \E err \in Errors : LoadRejected(err)

SpecFair ==
    /\ Init /\ [][Next]_vars
    /\ WF_vars(AnalysisSettles)
    /\ WF_vars(CheckinCallSettles)
    /\ WF_vars(EnrollCallSettles)
    /\ WF_vars(LoadSettles)
    /\ WF_vars(OrphanSettled)

(***************************************************************************)
(* Lab severity mapping: getStatus, applied by the results panel to every  *)
(* element of result.classified_values.                                    *)
(***************************************************************************)
LowerCase == <<"a", "b", "c", "d", "e", "f", "g", "h", "i", "j", "k", "l", "m",
               "n", "o", "p", "q", "r", "s", "t", "u", "v", "w", "x", "y", "z">>

UpperCase == <<"A", "B", "C", "D", "E", "F", "G", "H", "I", "J", "K", "L", "M",
               "N", "O", "P", "Q", "R", "S", "T", "U", "V", "W", "X", "Y", "Z">>

\* String.prototype.toUpperCase on the characters the model uses
toUpperCase(s) ==
    [i \in 1 .. Len(s) |->
       IF \E k \in DOMAIN LowerCase : LowerCase[k] = s[i]
         THEN UpperCase[CHOOSE k \in DOMAIN LowerCase : LowerCase[k] = s[i]]
         ELSE s[i]]

\* the status strings the analysis service may put in a classified value;
\* NULL is a value without a status field
StatusInputs ==
    { NULL,
      Some(<<>>),
      Some(<<"C", "R", "I", "T", "I", "C", "A", "L">>),
      Some(<<"c", "r", "i", "t", "i", "c", "a", "l">>),
      Some(<<"C", "r", "i", "t", "i", "c", "a", "l">>),
      Some(<<"H", "I", "G", "H">>),
      Some(<<"h", "i", "g", "h">>),
      Some(<<"h", "I", "g", "H">>),
      Some(<<"L", "O", "W">>),
      Some(<<"l", "o", "w">>),
      Some(<<"L", "o", "w">>),
      Some(<<"N", "O", "R", "M", "A", "L">>),
      Some(<<"n", "o", "r", "m", "a", "l">>),
      Some(<<"H", "I", "G", "H", "E", "R">>),
      Some(<<"h", "i", "g", "h", " ">>),
      Some(<<"l", "o">>),
      Some(<<"N", "/", "A">>) }

\* (val.status || '')
StatusOrEmpty(val) ==
    IF val.status # NULL /\ val.status[1] # <<>> THEN val.status[1] ELSE <<>>

\* variant: getStatus without toUpperCase
getStatus_CaseSensitive(val) ==
    LET s == StatusOrEmpty(val) IN
      IF s = <<"C", "R", "I", "T", "I", "C", "A", "L">> \/ s = <<"H", "I", "G", "H">>
        THEN (IF s = <<"C", "R", "I", "T", "I", "C", "A", "L">> THEN "critical" ELSE "high")
        ELSE IF s = <<"L", "O", "W">> THEN "high" ELSE "normal"

\* getStatus(val)
getStatus(val) ==
    LET s == toUpperCase(StatusOrEmpty(val)) IN
      IF s = <<"C", "R", "I", "T", "I", "C", "A", "L">> \/ s = <<"H", "I", "G", "H">>
        THEN (IF s = <<"C", "R", "I", "T", "I", "C", "A", "L">> THEN "critical" ELSE "high")
        ELSE IF s = <<"L", "O", "W">> THEN "high" ELSE "normal"

\* A lab page that shows a result whose classified_values are any sequence
\* of at most MaxValues values.
InitStatus ==
    /\ lang = "en"
    /\ page = "lab"
    /\ outputLang = [c \in Ctl |-> "en"]
    /\ result = [c \in Ctl |-> IF c = "lab"
                                 THEN Some(ResponseData(AnalysisRequest("lab", 1, LANG_MAP["en"])))
                                 ELSE NULL]
    /\ loading = [c \in Ctl |-> FALSE]
    /\ error = [c \in Ctl |-> NULL]
    /\ fileName = [c \in Ctl |-> IF c = "lab" THEN FileNameOf(1) ELSE NULL]
    /\ fileInput = [c \in Ctl |-> IF c = "lab" THEN Some(1) ELSE NULL]
    /\ inflight = <<>>
    /\ orphaned = 0
    /\ caught = NULL
    /\ resolved = NULL
    /\ \E n \in 0 .. MaxValues :
         values \in [1 .. n -> {[status |-> st] : st \in StatusInputs}]
    /\ rows = <<>>
    /\ chatLang = FreshChatLang(page, lang)
    /\ checkinStatus = NULL
    /\ checkinLoading = FALSE
    /\ enrollForm = InitialEnrollForm
    /\ enrollStatus = NULL
    /\ checkinCalls = <<>>
    /\ enrollCalls = <<>>
    /\ stats = Some(DefaultStats)
    /\ alerts = Some(DefaultAlerts)
    /\ recoveryData = NULL
    /\ loadPending = FALSE

\* result.classified_values && result.classified_values.length > 0 &&
\*   result.classified_values.map((v, i) => <LabRow ... status={getStatus(v)} />):
\* the map reaches the next element
RenderLabRow ==
    /\ ResultsRendered("lab")
    /\ Len(values) > 0
    /\ Len(rows) < Len(values)
    /\ rows' = Append(rows, getStatus(values[Len(rows) + 1]))
    /\ UNCHANGED <<lang, page, docVars, inflight, orphaned, caught, resolved, values,
                   followVars, snapVars>>

NextStatus == RenderLabRow

SpecStatus == InitStatus /\ [][NextStatus]_vars

(***************************************************************************)
(* The states of a document workflow controller, read off its cells.       *)
(***************************************************************************)
Pending(c) == loading[c]

Succeeded(c) == ~loading[c] /\ result[c] # NULL /\ error[c] = NULL

Failed(c) == ~loading[c] /\ error[c] # NULL

Idle(c) == ~loading[c] /\ result[c] = NULL /\ error[c] = NULL

\* the encodings of the four states of the tagged variant: Pending may hold
\* the result of the analysis that is being repeated, Failed holds no result
Encodings(c) ==
    { st \in {"Idle", "Pending", "Succeeded", "Failed"} :
        \/ st = "Idle" /\ Idle(c)
        \/ st = "Pending" /\ loading[c] /\ error[c] = NULL
        \/ st = "Succeeded" /\ Succeeded(c)
        \/ st = "Failed" /\ Failed(c) /\ result[c] = NULL }

\* the step is a step of the mounted document page c, not a navigation
StepOf(c) == page = c /\ page' = c

(***************************************************************************)
(* Claims.                                                                 *)
(***************************************************************************)

\* C1: every entry of a document controller into Succeeded or Failed is
\* made from Pending; a response never moves the controller from Idle or
\* from Succeeded/Failed straight to Succeeded or Failed.
C1_PendingNeverSkipped ==
    [][\A c \in Ctl :
         (StepOf(c) /\ (\/ ~Succeeded(c) /\ Succeeded(c)'
                        \/ ~Failed(c) /\ Failed(c)'))
           => Pending(c)]_vars

\* C2: in every reachable state the cells of a document controller encode
\* exactly one of Idle, Pending, Succeeded, Failed; in particular an error
\* is never held together with a result, nor together with loading.
C2_ExactlyOneState ==
    \A c \in Ctl :
      /\ Cardinality(Encodings(c)) = 1
      /\ ~(error[c] # NULL /\ result[c] # NULL)
      /\ ~(loading[c] /\ error[c] # NULL)

\* C3: a re-analyze taken while the lab page shows a result issues a call
\* whose file is the file the shown result was produced from and whose
\* language is the long-form name of the output language selected then.
C3_ReanalyzeReusesFileAndLanguage ==
    [][(/\ StepOf("lab")
        /\ ResultsRendered("lab")
        /\ result'["lab"] = result["lab"]
        /\ Len(inflight') = Len(inflight) + 1)
         => /\ inflight'[Len(inflight')].file = result["lab"][1].file
            /\ inflight'[Len(inflight')].language = LANG_MAP[outputLang["lab"]]]_vars

C5_StaleResponseDiscarded ==
    [][\A i \in DOMAIN inflight :
         (/\ StepOf(inflight[i].ctl)
          /\ inflight[i].superseded
          /\ inflight' = Settle(i))
           => UNCHANGED <<result, error, loading>>]_vars

\* C6: at most one analysis call of a document controller is on the wire
\* at any time.
C6_SingleFlight ==
    \A c \in Ctl :
      Cardinality({i \in DOMAIN inflight : inflight[i].ctl = c}) <= 1

\* C7: while a call of a controller is on the wire the controller is
\* loading.
C7_LoadingWhileInFlight ==
    \A i \in DOMAIN inflight : loading[inflight[i].ctl]

\* case-insensitive equality of two strings
EqualIgnoringCase(s, t) ==
    /\ Len(s) = Len(t)
    /\ \A i \in 1 .. Len(s) :
         \/ s[i] = t[i]
         \/ \E k \in DOMAIN LowerCase : {s[i], t[i]} = {LowerCase[k], UpperCase[k]}

\* the severity the mapping is specified to give to a status
ExpectedSeverity(st) ==
    LET str == IF st = NULL THEN <<>> ELSE st[1] IN
      IF EqualIgnoringCase(str, <<"C", "R", "I", "T", "I", "C", "A", "L">>)
        THEN "critical"
        ELSE IF \/ EqualIgnoringCase(str, <<"H", "I", "G", "H">>)
                \/ EqualIgnoringCase(str, <<"L", "O", "W">>)
               THEN "high"
               ELSE "normal"

\* C8: the rows rendered for classified_values carry, element by element,
\* the severity of the status compared without regard to case (CRITICAL to
\* critical, HIGH and LOW to high, anything else or nothing to normal),
\* always one of normal, high, critical, and every element gets a row.
C8_StatusMapping ==
    /\ Len(rows) <= Len(values)
    /\ \A i \in 1 .. Len(rows) :
         /\ rows[i] = ExpectedSeverity(values[i].status)
         /\ rows[i] \in {"normal", "high", "critical"}
    /\ Len(rows) < Len(values) => ENABLED RenderLabRow

\* C8 witness: all rows are rendered, among them a lower-case "low" shown
\* as high and a value without status shown as normal.
C8_Witness ==
    /\ Len(values) > 1
    /\ Len(rows) = Len(values)
    /\ \E i, j \in 1 .. Len(rows) :
         /\ values[i].status = Some(<<"l", "o", "w">>)
         /\ rows[i] = "high"
         /\ values[j].status = NULL
         /\ rows[j] = "normal"

\* C9: the message of a failed controller is never the empty string.
C9_FailedMessageNonEmpty ==
    \A c \in Ctl : error[c] # NULL => error[c][1] # ""

\* C9 witness: a call was rejected with an error that has neither detail
\* nor message, and the controller is Failed with the literal.
C9_Witness ==
    /\ page \in Ctl
    /\ caught = Some([response |-> FALSE, detail |-> NULL, message |-> Some("")])
    /\ Failed(page)
    /\ error[page] \in {Some("Analysis failed"), Some("Parsing failed")}

\* C10 as claimed: the message of a failure is the detail of the response
\* when it carries a usable one, and the literal of the page in every
\* other case.
C10_DetailElseLiteral ==
    (page \in Ctl /\ caught # NULL) =>
      error[page] =
        IF caught[1].response /\ caught[1].detail \notin {NULL, Some("")}
          THEN caught[1].detail
          ELSE IF page = "lab" THEN Some("Analysis failed") ELSE Some("Parsing failed")

\* C10 as amended: the message of a failure is the detail of the response
\* when it carries a non-empty one, else the message of the error when it
\* is non-empty, else the literal of the page.
C10_DetailElseMessageElseLiteral ==
    (page \in Ctl /\ caught # NULL) =>
      error[page] =
        IF caught[1].response /\ caught[1].detail \notin {NULL, Some("")}
          THEN caught[1].detail
          ELSE IF caught[1].message \notin {NULL, Some("")}
                 THEN caught[1].message
                 ELSE IF page = "lab" THEN Some("Analysis failed")
                                      ELSE Some("Parsing failed")

\* C10 witness: a call failed without a response and the controller shows
\* the message of the transport error.
C10_Witness ==
    /\ page \in Ctl
    /\ caught = Some([response |-> FALSE, detail |-> NULL,
                      message |-> Some("Network Error")])
    /\ Failed(page)
    /\ error[page] = Some("Network Error")

\* the step is the continuation of a sendCheckin call of the mounted
\* follow-up page
CheckinSettles ==
    page = "followup" /\ page' = page /\ Len(checkinCalls') < Len(checkinCalls)

DemoModeMsg == <<"U+2705 Check-in triggered (Twilio not configured -- demo mode)">>

SidMsg(sid) == <<"U+2705 Check-in sent (SID: ", sid, ")">>

\* C12: a sendCheckin call that succeeds with a body without message_sid
\* leaves the check-in sub-flow with ok = true and the demo-mode message,
\* which differs from the message of a check-in sent with a SID; the
\* sub-flow is not Failed.
C12_NoSidIsDemoMode ==
    [][(CheckinSettles /\ resolved' # NULL)
         => /\ ~checkinLoading'
            /\ checkinStatus' # NULL /\ checkinStatus'[1].ok
            /\ IF TruthyStr(resolved'[1].message_sid)
                 THEN /\ checkinStatus'[1].msg = SidMsg(resolved'[1].message_sid[1])
                      /\ checkinStatus'[1].msg # DemoModeMsg
                 ELSE checkinStatus'[1].msg = DemoModeMsg]_vars

\* a check-in has succeeded with a body without message_sid
C12_Witness ==
    /\ page = "followup"
    /\ resolved # NULL /\ resolved[1].message_sid = NULL
    /\ checkinStatus # NULL /\ checkinStatus[1].ok

\* C13: submitting the enrollment form with an empty phone or an empty
\* name issues no enrollPatient call and leaves the enrollment state
\* unchanged: no step taken while the phone or the name of the form is
\* empty puts an enrollPatient call on the wire.
C13_EmptySubmitIssuesNoCall ==
    [][(page = "followup" /\ (enrollForm.phone = "" \/ enrollForm.name = ""))
         => /\ Len(enrollCalls') <= Len(enrollCalls)
            /\ \A i \in DOMAIN enrollCalls' :
                 enrollCalls'[i].phone # "" /\ enrollCalls'[i].name # ""]_vars

\* C14: at most one enrollPatient call of the page is on the wire at any
\* time; a submission made while a call is pending issues no second call.
C14_EnrollSingleFlight == Len(enrollCalls) <= 1

\* the step is the continuation of the rejected snapshot call of the
\* mounted snapshot page
SnapshotLoadFails ==
    /\ page \in SnapshotPages /\ page' = page
    /\ loadPending /\ ~loadPending'
    /\ caught' # NULL

\* C15: when the snapshot load of a page fails, the page shows its
\* hardcoded default snapshot (Dashboard: lab_count 24, rx_count 4,
\* alert_count 3, recovery_day 5; Alerts: the three built-in alerts;
\* Recovery: day 5 of 7 with the fallback vitals) and no error state is
\* recorded anywhere.
C15_FailedLoadShowsDefaults ==
    [][SnapshotLoadFails
         => /\ page = "dashboard"
                 => stats' = Some([lab_count |-> 24, rx_count |-> 4,
                                   alert_count |-> 3, recovery_day |-> 5])
            /\ page = "alerts"
                 => /\ alerts' # NULL
                    /\ Len(alerts'[1]) = 3
                    /\ [i \in 1 .. 3 |-> alerts'[1][i].type]
                         = <<"critical", "warning", "info">>
            /\ page = "recovery"
                 => /\ currentDay' = 5
                    /\ totalDays' = 7
                    /\ vitals' = [pain |-> 6, energy |-> 4, sleep |-> 6, appetite |-> 8]
            /\ \A c \in Ctl : error'[c] = NULL
            /\ checkinStatus' = NULL /\ enrollStatus' = NULL]_vars

\* the snapshot call of the Dashboard has been rejected
C15_Witness ==
    /\ page = "dashboard" /\ ~loadPending
    /\ caught # NULL
    /\ stats # NULL /\ stats[1].lab_count = 24

\* the step is a reset of the prescription page: it clears result and error
\* of a page that shows a result or an error, and it is not a file selection
PrescriptionReset ==
    /\ StepOf("prescription")
    /\ result["prescription"] # NULL \/ error["prescription"] # NULL
    /\ result'["prescription"] = NULL /\ error'["prescription"] = NULL
    /\ fileInput' = fileInput

\* C16: the reset actions of the prescription page ('Upload Another' from
\* Succeeded, 'Try Again' from Failed) leave the controller in Idle (no
\* result, no error, not loading) and issue no service call.
C16_ResetGoesToIdle ==
    [][PrescriptionReset
         => /\ Succeeded("prescription") \/ Failed("prescription")
            /\ Idle("prescription")'
            /\ inflight' = inflight
            /\ orphaned' = orphaned]_vars

\* the prescription page is back in Idle after a reset: it has been used
\* (a file is selected) and shows nothing
C16_Witness ==
    /\ page = "prescription"
    /\ Idle("prescription")
    /\ fileInput["prescription"] # NULL
    /\ inflight = <<>>

\* C17: the lab page never returns to Idle once it has left it: while the
\* page stays mounted, a step from a state that is not Idle (a result, an
\* error or a pending request) never leads to a state with no result, no
\* error and no request pending.
C17_LabNeverBackToIdle ==
    [][(StepOf("lab") /\ ~Idle("lab")) => ~Idle("lab")']_vars

\* the lab page has left Idle and all its calls have settled
C17_Witness ==
    /\ page = "lab"
    /\ ~Idle("lab")
    /\ ~loading["lab"]
    /\ inflight = <<>>
    /\ fileInput["lab"] = NULL

\* C18: the output language of a controller equals the global UI language
\* when the controller is created (the page is mounted); afterwards the two
\* are independent: a change of the UI language changes no output language,
\* and a change of a page's output language changes neither the UI language
\* nor the output language of another page.
C18_OutputLangSeededThenIndependent ==
    /\ \A c \in Ctl : page = c => outputLang[c] = lang
    /\ page = "followup" => chatLang = lang
    /\ [][/\ \A c \in Ctl : (page # c /\ page' = c) => outputLang'[c] = lang
          /\ (page # "followup" /\ page' = "followup") => chatLang' = lang
          /\ (page' = page /\ lang' # lang)
               => outputLang' = outputLang /\ chatLang' = chatLang
          /\ \A c \in Ctl : (StepOf(c) /\ outputLang'[c] # outputLang[c])
               => /\ lang' = lang
                  /\ chatLang' = chatLang
                  /\ \A d \in Ctl \ {c} : outputLang'[d] = outputLang[d]
          /\ (StepOf("followup") /\ chatLang' # chatLang)
               => lang' = lang /\ outputLang' = outputLang]_vars

\* a lab page created while the UI language was Telugu, the UI language
\* being Hindi now
C18_Witness ==
    /\ page = "lab"
    /\ Idle("lab") /\ fileInput["lab"] = NULL
    /\ outputLang["lab"] = "te"
    /\ lang = "hi"

\* the language names the service accepts, and the long form of a code
LanguageNames == {"English", "Telugu", "Hindi"}

LongForm(code) ==
    CASE code = "en" -> "English" [] code = "te" -> "Telugu" [] code = "hi" -> "Hindi"

\* C19: every analysis, check-in and enrollment request carries a language
\* from {"English", "Telugu", "Hindi"}; the language of an analysis request
\* and of a check-in request is the long form of the output language the
\* page has when it issues the request.
C19_RequestLanguage ==
    [][/\ \A i \in DOMAIN inflight' : inflight'[i].language \in LanguageNames
       /\ \A i \in DOMAIN checkinCalls' : checkinCalls'[i].language \in LanguageNames
       /\ \A i \in DOMAIN enrollCalls' : enrollCalls'[i].language \in LanguageNames
       /\ \A c \in Ctl : (StepOf(c) /\ Len(inflight') > Len(inflight))
            => inflight'[Len(inflight')].language = LongForm(outputLang[c])
       /\ (StepOf("followup") /\ Len(checkinCalls') > Len(checkinCalls))
            => checkinCalls'[Len(checkinCalls')].language = LongForm(chatLang)]_vars

\* a Telugu check-in request is on the wire, the chat language having been
\* switched to Hindi since, and an enrollment request is on the wire too
C19_Witness ==
    /\ page = "followup"
    /\ Len(checkinCalls) = 1 /\ checkinCalls[1].language = "Telugu"
    /\ chatLang = "hi"
    /\ Len(enrollCalls) = 1

\* C20: whenever the lab page is in Succeeded it holds the file that a
\* re-analysis needs, so that a re-analyze request made in Succeeded always
\* issues a request and moves the page to Pending and is never a silent
\* no-op.
C20_SucceededHoldsFile ==
    (page = "lab" /\ Succeeded("lab")) => fileInput["lab"] # NULL

\* the number of service calls that have been issued and have not settled
CallsOnWire ==
    Len(inflight) + Len(checkinCalls) + Len(enrollCalls)
      + (IF loadPending THEN 1 ELSE 0) + orphaned

\* C21: no service call is issued without a cause.  A step issues at most
\* one call; within a page activation a call is issued only by a step in
\* which the user's upload, re-analyze, check-in or enrollment action is
\* accepted (exactly one analysis, check-in or enrollment call is added and
\* nothing settles); the snapshot call of a page is issued by the step that
\* activates the page and never again during that activation; and the step
\* in which a call fails issues no call (no automatic retry).
C21_NoCallWithoutCause ==
    [][/\ CallsOnWire' <= CallsOnWire + 1
       /\ caught' # NULL => CallsOnWire' = CallsOnWire - 1
       /\ resolved' # NULL => CallsOnWire' = CallsOnWire - 1
       /\ page' # page
            => /\ loadPending' = (page' \in SnapshotPages)
               /\ CallsOnWire' = CallsOnWire + (IF page' \in SnapshotPages THEN 1 ELSE 0)
               /\ inflight' = <<>> /\ checkinCalls' = <<>> /\ enrollCalls' = <<>>
       /\ page' = page
            => /\ loadPending' => loadPending
               /\ CallsOnWire' = CallsOnWire + 1
                    => \/ /\ page \in Ctl
                          /\ Len(inflight') = Len(inflight) + 1
                          /\ loading'[page]
                       \/ /\ page = "followup"
                          /\ Len(checkinCalls') = Len(checkinCalls) + 1
                          /\ enrollCalls' = enrollCalls
                          /\ ~checkinLoading /\ checkinLoading'
                       \/ /\ page = "followup"
                          /\ Len(enrollCalls') = Len(enrollCalls) + 1
                          /\ checkinCalls' = checkinCalls]_vars

\* the snapshot call of the Alerts page has failed and nothing is on the wire
C21_Witness ==
    /\ page = "alerts"
    /\ caught # NULL
    /\ ~loadPending
    /\ CallsOnWire = 0

\* C22: if every issued call eventually settles, a controller that is
\* Pending eventually leaves Pending for Succeeded or Failed (unless its
\* page is left first), and in every Failed state the control that starts
\* a new attempt is available: the upload button of a document page, the
\* check-in trigger, the enrollment form.
C22_PendingEndsAndFailedCanRetry ==
    /\ \A c \in Ctl :
         (page = c /\ Pending(c)) ~> (page # c \/ Succeeded(c) \/ Failed(c))
    /\ (page = "followup" /\ checkinLoading)
         ~> (page # "followup" \/ (~checkinLoading /\ checkinStatus # NULL))
    /\ (page = "followup" /\ enrollCalls # <<>>)
         ~> (page # "followup" \/ enrollStatus # NULL)
    /\ [](\A c \in Ctl : (page = c /\ Failed(c)) => HeaderUploadRendered(c))
    /\ []((page = "followup" /\ checkinStatus # NULL /\ ~checkinStatus[1].ok)
            => TriggerRendered)
    /\ []((page = "followup" /\ enrollStatus # NULL /\ ~enrollStatus[1].ok)
            => EnrollSubmitRendered)

\* a document page is Failed after a pending call has been rejected
C22_Witness ==
    /\ page \in Ctl
    /\ Failed(page)
    /\ caught # NULL
    /\ inflight = <<>>

\* C23: a file-selection event that carries no file (the input element is
\* left without a file), and a lab re-analyze made while the input element
\* holds no file, issue no service call and leave result, error, loading
\* and fileName unchanged.
C23_NoFileIsNoOp ==
    [][/\ \A c \in Ctl :
            (StepOf(c) /\ fileInput[c] # NULL /\ fileInput'[c] = NULL)
              => /\ inflight' = inflight
                 /\ <<result, error, loading, fileName>>' = <<result, error, loading, fileName>>
       /\ (StepOf("lab") /\ fileInput["lab"] = NULL /\ fileInput'["lab"] = NULL)
              => /\ Len(inflight') <= Len(inflight)
                 /\ Len(inflight') = Len(inflight)
                      => <<result, error, loading, fileName>>'
                           = <<result, error, loading, fileName>>]_vars

\* the lab page shows a result while its input element holds no file, so
\* that re-analyze is offered and finds no file
C23_Witness ==
    /\ ResultsRendered("lab")
    /\ fileInput["lab"] = NULL
    /\ fileName["lab"] # NULL
    /\ ENABLED handleReanalyze

\* C24: the check-in sub-flow is Idle (no status, not loading), Pending
\* (loading) or settled (a status, not loading) and nothing else: while a
\* sendCheckin call is on the wire the trigger is disabled, so at most one
\* call is on the wire and the sub-flow is loading exactly then; no status
\* of an earlier attempt is held while loading; and a completion leaves
\* exactly one outcome, ok for a fulfilled call and not ok for a rejected
\* one.
C24_CheckinFlow ==
    /\ Len(checkinCalls) <= 1
    /\ checkinLoading <=> (Len(checkinCalls) = 1)
    /\ checkinLoading => checkinStatus = NULL
    /\ (page = "followup" /\ checkinLoading) => ~TriggerRendered
    /\ page # "followup" => (~checkinLoading /\ checkinStatus = NULL)
    /\ resolved # NULL
         => ~checkinLoading /\ checkinStatus # NULL /\ checkinStatus[1].ok

\* a check-in is pending, the trigger is disabled, and the enrollment
\* sub-flow of the same page has a status and a call on the wire
C24_Witness ==
    /\ page = "followup"
    /\ checkinLoading
    /\ ~TriggerRendered
    /\ Len(checkinCalls) = 1
    /\ enrollStatus # NULL
    /\ enrollCalls # <<>>

\* the cells and calls of the check-in sub-flow / of the enrollment sub-flow
checkinVars == <<chatLang, checkinStatus, checkinLoading, checkinCalls>>

enrollVars == <<enrollForm, enrollStatus, enrollCalls>>

\* C25: controllers share no mutable state.  A step that changes the
\* check-in sub-flow leaves the enrollment status, draft and calls as they
\* are, and the other way round; a step of one document page leaves the
\* cells of the other document page as they are; and a change of the UI
\* language changes no result, error, loading or status of any page and
\* issues no call.
C25_NoSharedState ==
    [][/\ (StepOf("followup") /\ checkinVars' # checkinVars) => enrollVars' = enrollVars
       /\ (StepOf("followup") /\ enrollVars' # enrollVars) => checkinVars' = checkinVars
       /\ \A c \in Ctl : StepOf(c)
            => /\ \A d \in Ctl \ {c} :
                    /\ outputLang'[d] = outputLang[d] /\ result'[d] = result[d]
                    /\ loading'[d] = loading[d] /\ error'[d] = error[d]
                    /\ fileName'[d] = fileName[d] /\ fileInput'[d] = fileInput[d]
               /\ UNCHANGED <<followVars, snapVars>>
       /\ StepOf("followup") => UNCHANGED <<docVars, inflight, snapVars>>
       /\ lang' # lang
            => UNCHANGED <<page, docVars, followVars, snapVars, inflight, orphaned>>]_vars

\* the UI language was changed while the follow-up page holds a check-in
\* status and an enrollment call is on the wire
C25_Witness ==
    /\ page = "followup"
    /\ lang # chatLang
    /\ checkinStatus # NULL
    /\ enrollStatus = NULL
    /\ enrollCalls # <<>>

\* C26: after a switch of the output language while Succeeded the rendered
\* summary / translated instructions are the content for the newly selected
\* output language: the language of the rendered content always equals the
\* selected output language.
C26_RenderedLanguageIsSelected ==
    \A c \in Ctl :
       ResultsRendered(c) => RenderedLanguage(c) = LongForm(outputLang[c])

\* C27: after any completion of the alerts snapshot load the alerts state
\* is a defined sequence; a fulfilled load whose body lacks the alerts
\* field leaves the default list (or an empty list), never an undefined
\* value for the renderer to dereference.
C27_AlertsDefined ==
    page = "alerts" => alerts # NULL

\* C30: when the recovery snapshot load has succeeded, the displayed
\* current day, total days and vitals equal the values the service
\* returned, for every returned value (0 included); the defaults are used
\* only when the load failed or the field is absent.
C30_RecoveryShowsReturnedValues ==
    (page = "recovery" /\ recoveryData # NULL)
      => /\ currentDay = recoveryData[1].current_day
         /\ totalDays = recoveryData[1].total_days
         /\ vitals = IF recoveryData[1].vitals # NULL
                       THEN recoveryData[1].vitals[1]
                       ELSE [pain |-> 6, energy |-> 4, sleep |-> 6, appetite |-> 8]

\* C28: on the lab page a re-analyze never discards the last successful
\* result: the result keeps its value in the step that starts the
\* re-analysis and in the step in which a call fails; it changes only when
\* a call is fulfilled (to the new result) or when a new file is selected
\* (to none).
C28_ReanalyzeKeepsResult ==
    [][StepOf("lab")
         => /\ (fileInput' = fileInput /\ Len(inflight') = Len(inflight) + 1)
                 => result'["lab"] = result["lab"]
            /\ caught' # NULL => result'["lab"] = result["lab"]
            /\ result'["lab"] # result["lab"]
                 => \/ /\ Len(inflight') = Len(inflight) - 1
                       /\ caught' = NULL
                       /\ result'["lab"] # NULL
                    \/ /\ fileInput'["lab"] # fileInput["lab"]
                       /\ fileInput'["lab"] # NULL
                       /\ Len(inflight') = Len(inflight) + 1
                       /\ result'["lab"] = NULL]_vars

\* a re-analysis of the lab page has failed and the earlier result is kept
C28_Witness ==
    /\ page = "lab"
    /\ caught # NULL
    /\ result["lab"] # NULL
    /\ error["lab"] # NULL
    /\ ~loading["lab"]

\* the step is the continuation of an enrollPatient call of the mounted
\* follow-up page
EnrollSettles ==
    page = "followup" /\ page' = page /\ Len(enrollCalls') < Len(enrollCalls)

\* C29: the enrollment status reflects the enrollPatient call that
\* completed last: the step in which a call completes sets a status whose
\* ok is true exactly when the call was fulfilled, whatever the calls still
\* on the wire (with overlapping submissions the status is the one of the
\* response that arrived last); every other step of the page, a further
\* submission included, leaves the status as it is.
C29_EnrollStatusIsLastCompletion ==
    [][/\ EnrollSettles
            => /\ enrollStatus' # NULL
               /\ enrollStatus'[1].ok <=> (caught' = NULL)
       /\ (StepOf("followup") /\ ~EnrollSettles) => enrollStatus' = enrollStatus]_vars

\* a submission is on the wire while the failure of an earlier one is shown
C29_Witness ==
    /\ page = "followup"
    /\ enrollStatus # NULL /\ ~enrollStatus[1].ok
    /\ enrollCalls # <<>>
    /\ caught = NULL

\* C31: every enrollPatient request carries language "English" and an
\* empty doctor phone, whatever the UI language, the chat language and the
\* edits of the form: of the draft only phone and name ever change.
C31_EnrollLanguageAndDoctorPhone ==
    /\ enrollForm.language = "English"
    /\ enrollForm.doctorPhone = ""
    /\ \A i \in DOMAIN enrollCalls :
         /\ enrollCalls[i].language = "English"
         /\ enrollCalls[i].doctor_phone = ""

\* an enrollment request with a phone and a name is on the wire while the
\* UI language is Telugu and the chat language Hindi
C31_Witness ==
    /\ page = "followup"
    /\ lang = "te"
    /\ chatLang = "hi"
    /\ enrollCalls # <<>>
    /\ enrollCalls[1].phone # "" /\ enrollCalls[1].name # ""

\* C32: a workflow controller lives only while its route is active.  The
\* step that activates a document page yields a fresh controller: Idle, no
\* file, no call on the wire, output language equal to the UI language of
\* that moment; and the step in which a call of an earlier instance
\* settles changes nothing of the mounted page.
C32_FreshControllerPerActivation ==
    [][/\ \A c \in Ctl : (page # c /\ page' = c)
            => /\ Idle(c)'
               /\ fileName'[c] = NULL /\ fileInput'[c] = NULL
               /\ inflight' = <<>>
               /\ outputLang'[c] = lang'
       /\ (page # "followup" /\ page' = "followup")
            => /\ checkinStatus' = NULL /\ ~checkinLoading' /\ enrollStatus' = NULL
               /\ checkinCalls' = <<>> /\ enrollCalls' = <<>>
               /\ chatLang' = lang'
       /\ (page' = page /\ orphaned' < orphaned)
            => UNCHANGED <<docVars, followVars, snapVars, inflight>>]_vars

\* a lab page activated under UI language Telugu is Idle while a call of
\* an earlier instance is still on the wire
C32_Witness ==
    /\ page = "lab"
    /\ Idle("lab") /\ fileInput["lab"] = NULL
    /\ orphaned > 0
    /\ lang = "te" /\ outputLang["lab"] = "te"

====
